---- MODULE Spec2Model ----
(* Model of src/backend/main.py: the module's functions (lines 19-377) and  *)
(* the main execution (lines 385-431).  A behaviour is one interpreter      *)
(* session: the script body runs (possibly several times on the same        *)
(* folder), after which a client may call the module's functions with       *)
(* arbitrary arguments.                                                     *)
(* Numbers: coordinates and measurements are integers; the missing value    *)
(* NaN is an integer no coordinate or measurement takes.  Strings that the code inspects character by character *)
(* (file names, patterns) are sequences of one-character strings.           *)
EXTENDS Integers, Sequences, FiniteSets, TLC

\* ---------------------------------------------------------------- bounds
MaxFiles   == 2   \* entries in the data folder
MaxRows    == 2   \* latitude count of a grid
MaxCols    == 2   \* longitude count of a grid
MaxMissing == 1   \* missing cells in the folder's data
MaxTimeIndex == 2 \* largest time_index a client passes

\* The sampling threshold of line 410/414 is 100000 in the code; the model
\* scales it down so that lists longer than the cap exist within the bounds.
SAMPLE_CAP == 2
SEED == 42
RngMod == 7       \* size of the abstract generator state space

NaN == -1
None == "None"

\* ---------------------------------------------------------------- strings
Ext == <<".", "h", "e", "5", ".", "n", "c">>
DefaultPattern == <<"*">> \o Ext                     \* "*.he5.nc"
FileNameSeq == << <<"a">> \o Ext,                    \* a.he5.nc
                 <<"a", "b", ".", "n", "c">>,        \* ab.nc
                 <<"b">> \o Ext >>                   \* b.he5.nc
FileNames == { FileNameSeq[k] : k \in DOMAIN FileNameSeq }
FileRank(f) == CHOOSE k \in DOMAIN FileNameSeq : FileNameSeq[k] = f
Patterns == { DefaultPattern,
              <<"*", ".", "n", "c">>,                \* *.nc
              <<"a", "*", ".", "n", "c">>,           \* a*.nc
              <<"*", ".", "h", "e", "5", "*">>,      \* *.he5*
              <<"*", ".", "t", "x", "t">> }          \* *.txt

VARIABLE_NAME == "ColumnAmountNO2"
OTHER_NAME == "CloudFraction"
Names == {VARIABLE_NAME, OTHER_NAME}

\* str.replace("*", "")
RECURSIVE StripStars(_)
StripStars(p) ==
  IF p = <<>> THEN <<>>
  ELSE IF Head(p) = "*" THEN StripStars(Tail(p))
  ELSE <<Head(p)>> \o StripStars(Tail(p))

\* str.endswith
EndsWith(f, suffix) ==
  /\ Len(suffix) <= Len(f)
  /\ SubSeq(f, Len(f) - Len(suffix) + 1, Len(f)) = suffix

\* the comprehension of lines 44-48, as positions of os.listdir's result
RECURSIVE MatchingPositions(_, _, _)
MatchingPositions(listing, ext, k) ==
  IF k > Len(listing) THEN <<>>
  ELSE IF EndsWith(listing[k], ext)
       THEN <<k>> \o MatchingPositions(listing, ext, k + 1)
       ELSE MatchingPositions(listing, ext, k + 1)

\* ---------------------------------------------------------------- folder
\* The folder ./nasa_data/ as the script finds it: the directory listing as
\* os.listdir returns it and what the files hold.  Listings are taken in
\* name order; what each file holds is arbitrary, so another order of the
\* same names adds no case.  File k of the listing holds
\* one time step of every variable on a rows x cols grid; cell (i, j) of
\* file k is missing when <<k, i, j>> is in missing.
Prefixes(n) == UNION { [1..m -> FileNames] : m \in 0..n }
Listings == { l \in Prefixes(MaxFiles) :
                \A a, b \in DOMAIN l :
                   a < b => FileRank(l[a]) < FileRank(l[b]) }
Cells(n, r, c) == (1..n) \X (0..(r - 1)) \X (0..(c - 1))
\* the subsets of S with at most k elements
RECURSIVE UpTo(_, _)
UpTo(S, k) ==
  IF k = 0 THEN {{}}
  ELSE UpTo(S, k - 1) \cup { T \cup {x} : T \in UpTo(S, k - 1), x \in S }
MissingSets(n, r, c) == UpTo(Cells(n, r, c), MaxMissing)

LatOf(i) == 10 * i - 10
LonOf(j) == 100 + 10 * j
ExistingDay(t) == 1000 + t
VarCode(name) == IF name = VARIABLE_NAME THEN 0 ELSE 5000

\* xr.open_mfdataset(files, combine="nested", concat_dim=time_dim): the
\* library call of lines 54-60, as far as the script looks at its result.
open_mfdataset(d, positions, time_dim) ==
  [ data_vars |-> IF d.has_var THEN Names ELSE {OTHER_NAME},
    dims      |-> {"lat", "lon"} \cup (IF d.has_dim THEN {time_dim} ELSE {}),
    n_time    |-> Len(positions),
    coords    |-> [ c \in {"lat", "lon"} \cup
                          (IF d.has_coord THEN {time_dim} ELSE {}) |->
                    IF c = "lat" THEN [i \in 1..d.rows |-> LatOf(i - 1)]
                    ELSE IF c = "lon" THEN [j \in 1..d.cols |-> LonOf(j - 1)]
                    ELSE [t \in 1..Len(positions) |-> ExistingDay(t - 1)] ],
    time_dim  |-> time_dim,
    var_time  |-> d.has_dim /\ d.var_time,
    pos       |-> positions,
    rows      |-> d.rows,
    cols      |-> d.cols,
    missing   |-> d.missing ]

\* pd.date_range(start_date, periods=n): n consecutive days
date_range(start_date, n) == [t \in 1..n |-> start_date + (t - 1)]

\* ds.assign_coords({name: values})
assign_coords(ds, name, values) ==
  [ds EXCEPT !.coords = [c \in DOMAIN ds.coords \cup {name} |->
                           IF c = name THEN values ELSE ds.coords[c]]]

\* lines 19-68 without the check of line 50: the library fails on no files
open_local_datasets_unchecked(d, time_dim, start_date, file_pattern) ==
  LET file_extension == StripStars(file_pattern)
      files == MatchingPositions(d.listing, file_extension, 1)
  IN IF files = <<>>
     THEN [raised |-> "OSError", files |-> files, opened |-> files,
           ds |-> None]
     ELSE LET ds == open_mfdataset(d, files, time_dim)
          IN [raised |-> None, files |-> files, opened |-> files,
              ds |-> IF time_dim \in ds.dims /\ time_dim \notin DOMAIN ds.coords
                     THEN assign_coords(ds, time_dim,
                                        date_range(start_date, ds.n_time))
                     ELSE ds]

\* lines 19-68 with line 63 testing the dimension only
open_local_datasets_overwrite(d, time_dim, start_date, file_pattern) ==
  LET file_extension == StripStars(file_pattern)
      files == MatchingPositions(d.listing, file_extension, 1)
  IN IF files = <<>>
     THEN [raised |-> "FileNotFoundError", files |-> files, opened |-> <<>>,
           ds |-> None]
     ELSE LET ds == open_mfdataset(d, files, time_dim)
          IN [raised |-> None, files |-> files, opened |-> files,
              ds |-> IF time_dim \in ds.dims
                     THEN assign_coords(ds, time_dim,
                                        date_range(start_date, ds.n_time))
                     ELSE ds]

\* lines 19-68
open_local_datasets(d, time_dim, start_date, file_pattern) ==
  LET file_extension == StripStars(file_pattern)
      files == MatchingPositions(d.listing, file_extension, 1)
  IN IF files = <<>>
     THEN [raised |-> "FileNotFoundError", files |-> files, opened |-> <<>>,
           ds |-> None]
     ELSE LET ds == open_mfdataset(d, files, time_dim)
          IN [raised |-> None, files |-> files, opened |-> files,
              ds |-> IF time_dim \in ds.dims /\ time_dim \notin DOMAIN ds.coords
                     THEN assign_coords(ds, time_dim,
                                        date_range(start_date, ds.n_time))
                     ELSE ds]

\* lines 71-80 returning True on both branches
check_variable_true(ds, variable_name) ==
  IF variable_name \in ds.data_vars
  THEN [ret |-> TRUE, printed |-> <<"found", variable_name>>]
  ELSE [ret |-> TRUE, printed |-> <<"not found", ds.data_vars>>]

\* lines 71-80
check_variable(ds, variable_name) ==
  IF variable_name \in ds.data_vars
  THEN [ret |-> TRUE, printed |-> <<"found", variable_name>>]
  ELSE [ret |-> FALSE, printed |-> <<"not found", ds.data_vars>>]

\* ---------------------------------------------------------------- arrays
\* ds[variable_name]: dimension names and values of a data variable
VarDims(ds) == IF ds.var_time THEN <<ds.time_dim, "lat", "lon">>
               ELSE <<"lat", "lon">>
InDims(name, dims) == \E k \in DOMAIN dims : dims[k] = name
\* value at time step t (0-based), row i, column j
VarValue(ds, name, t, i, j) ==
  LET k == ds.pos[t + 1]
  IN IF <<k, i, j>> \in ds.missing THEN NaN
     ELSE VarCode(name) + 100 * k + 10 * i + j
\* a 2-D array: rows, cols and the cell values
Grid(ds, name, t) ==
  [rows |-> ds.rows, cols |-> ds.cols,
   at |-> [i \in 0..(ds.rows - 1) |-> [j \in 0..(ds.cols - 1) |->
             VarValue(ds, name, t, i, j)]]]
isna(v) == v = NaN

\* ---------------------------------------------------------------- plots
\* lines 83-157; the mean of a set of cells is kept as <<sum, count>>
RECURSIVE SumCells(_, _, _, _)
SumCells(ds, name, t, cells) ==
  IF cells = {} THEN <<0, 0>>
  ELSE LET c == CHOOSE x \in cells : TRUE
           rest == SumCells(ds, name, t, cells \ {c})
           v == VarValue(ds, name, t, c[1], c[2])
       IN IF isna(v) THEN rest ELSE <<rest[1] + v, rest[2] + 1>>
MeanSkipNa(ds, name, t) ==
  SumCells(ds, name, t, (0..(ds.rows - 1)) \X (0..(ds.cols - 1)))
\* a mean over no valid cell is NaN
isna_mean(m) == m[2] = 0
TimeAxis(ds, time_dim) ==
  IF time_dim \in DOMAIN ds.coords THEN ds.coords[time_dim]
  ELSE [t \in 1..ds.n_time |-> t - 1]
plot_global_mean(ds, variable_name, time_dim) ==
  IF variable_name \notin ds.data_vars
  THEN [shown |-> FALSE, kind |-> None, x |-> <<>>, y |-> <<>>]
  ELSE IF ~InDims(time_dim, VarDims(ds))
  THEN \* every dimension is averaged: a 0-d result
       LET values == MeanSkipNa(ds, variable_name, 0)
       IN IF ~isna_mean(values)
          THEN [shown |-> TRUE, kind |-> "bar", x |-> <<0>>, y |-> <<values>>]
          ELSE [shown |-> FALSE, kind |-> None, x |-> <<>>, y |-> <<>>]
  ELSE LET values == [t \in 1..ds.n_time |->
                        MeanSkipNa(ds, variable_name, t - 1)]
           times == TimeAxis(ds, time_dim)
       IN IF ~(\A t \in DOMAIN values : isna_mean(values[t]))
          THEN [shown |-> TRUE, kind |-> "line", x |-> times, y |-> values]
          ELSE [shown |-> FALSE, kind |-> None, x |-> <<>>, y |-> <<>>]

NoGrid == [rows |-> 0, cols |-> 0, at |-> <<>>]
\* lines 190-200: the time slice plot_spatial_map draws
PlotSlice(ds, variable_name, time_index) ==
  IF InDims("Line", VarDims(ds))
  THEN IF ds.n_time > 1
       THEN IF time_index < ds.n_time
            THEN [raised |-> None, label |-> "at time index",
                  grid |-> Grid(ds, variable_name, time_index)]
            ELSE [raised |-> "IndexError", label |-> "", grid |-> NoGrid]
       ELSE [raised |-> None, label |-> "",
             grid |-> Grid(ds, variable_name, 0)]
  ELSE [raised |-> None, label |-> "", grid |-> Grid(ds, variable_name, 0)]

AllMissing(g) ==
  \A i \in 0..(g.rows - 1), j \in 0..(g.cols - 1) : isna(g.at[i][j])

NoPlot == [shown |-> FALSE, raised |-> None, backend |-> None,
           label |-> "", grid |-> NoGrid, lats |-> <<>>, lons |-> <<>>]
\* lines 160-320
plot_spatial_map(ds, variable_name, time_index, interactive) ==
  IF variable_name \notin ds.data_vars THEN NoPlot
  ELSE LET sl == PlotSlice(ds, variable_name, time_index)
       IN IF sl.raised # None THEN [NoPlot EXCEPT !.raised = sl.raised]
          ELSE IF AllMissing(sl.grid) THEN NoPlot
          ELSE [shown |-> TRUE, raised |-> None,
                backend |-> IF interactive THEN "plotly" ELSE "matplotlib",
                label |-> sl.label, grid |-> sl.grid,
                lats |-> ds.coords["lat"], lons |-> ds.coords["lon"]]

\* ---------------------------------------------------------------- extraction
\* lines 354-361 reading the first time step whatever time_index is
ExtractSliceFirst(ds, variable_name, time_index) ==
  IF InDims("Line", VarDims(ds))
  THEN IF ds.n_time > 1
       THEN IF time_index < ds.n_time
            THEN [raised |-> None, grid |-> Grid(ds, variable_name, 0)]
            ELSE [raised |-> "IndexError", grid |-> NoGrid]
       ELSE [raised |-> None, grid |-> Grid(ds, variable_name, 0)]
  ELSE [raised |-> None, grid |-> Grid(ds, variable_name, 0)]

\* lines 354-361: the time slice get_spatial_data_as_list reads
ExtractSlice(ds, variable_name, time_index) ==
  IF InDims("Line", VarDims(ds))
  THEN IF ds.n_time > 1
       THEN IF time_index < ds.n_time
            THEN [raised |-> None, grid |-> Grid(ds, variable_name, time_index)]
            ELSE [raised |-> "IndexError", grid |-> NoGrid]
       ELSE [raised |-> None, grid |-> Grid(ds, variable_name, 0)]
  ELSE [raised |-> None, grid |-> Grid(ds, variable_name, 0)]

\* line 373 with the test on the value inverted
KeepInverted(skip_nan, val) == ~skip_nan \/ isna(val)

\* line 373: whether cell value val yields a triplet
Keep(skip_nan, val) == ~skip_nan \/ ~isna(val)

\* lines 369-374 with the loops nested the other way round
RECURSIVE BuildListLonMajor(_, _, _, _, _, _)
BuildListLonMajor(lats, lons, g, skip_nan, i, j) ==
  IF j >= Len(lons) THEN <<>>
  ELSE IF i >= Len(lats) THEN BuildListLonMajor(lats, lons, g, skip_nan, 0, j + 1)
  ELSE LET val == g.at[i][j]
           rest == BuildListLonMajor(lats, lons, g, skip_nan, i + 1, j)
       IN IF Keep(skip_nan, val)
          THEN <<<<lats[i + 1], lons[j + 1], val>>>> \o rest
          ELSE rest

\* lines 369-374: the two nested loops, from cell (i, j) onwards
RECURSIVE BuildList(_, _, _, _, _, _)
BuildList(lats, lons, g, skip_nan, i, j) ==
  IF i >= Len(lats) THEN <<>>
  ELSE IF j >= Len(lons) THEN BuildList(lats, lons, g, skip_nan, i + 1, 0)
  ELSE LET val == g.at[i][j]
           rest == BuildList(lats, lons, g, skip_nan, i, j + 1)
       IN IF Keep(skip_nan, val)
          THEN <<<<lats[i + 1], lons[j + 1], val>>>> \o rest
          ELSE rest

\* lines 323-377
get_spatial_data_as_list(ds, variable_name, time_index, skip_nan) ==
  IF variable_name \notin ds.data_vars
  THEN [raised |-> None, result |-> <<>>]
  ELSE LET sl == ExtractSlice(ds, variable_name, time_index)
       IN IF sl.raised # None THEN [raised |-> sl.raised, result |-> <<>>]
          ELSE [raised |-> None,
                result |-> BuildList(ds.coords["lat"], ds.coords["lon"],
                                     sl.grid, skip_nan, 0, 0)]

\* ---------------------------------------------------------------- random
\* The generator of module random, abstracted to a deterministic generator
\* over RngMod states: seed fixes the state, every draw advances it.
seed(a) == a % RngMod
NextRng(st) == (3 * st + 1) % RngMod
\* _randbelow(n): the draw and the state after it
randbelow(st, n) == [j |-> NextRng(st) % n, st |-> NextRng(st)]

\* a sample that leaves the pool as it is: positions can repeat
RECURSIVE SampleLoopWithReplacement(_, _, _, _, _)
SampleLoopWithReplacement(pool, n, k, i, st) ==
  IF i = k THEN <<>>
  ELSE LET d == randbelow(st, n)
       IN <<pool[d.j + 1]>> \o
          SampleLoopWithReplacement(pool, n, k, i + 1, d.st)

\* random.sample(population, k), pool branch: draw i picks pool[j] and moves
\* the last live pool entry into its place
RECURSIVE SampleLoop(_, _, _, _, _)
SampleLoop(pool, n, k, i, st) ==
  IF i = k THEN <<>>
  ELSE LET d == randbelow(st, n - i)
       IN <<pool[d.j + 1]>> \o
          SampleLoop([pool EXCEPT ![d.j + 1] = pool[n - i]], n, k, i + 1, d.st)
sample(population, k, st) == SampleLoop(population, Len(population), k, 0, st)

\* the draw without line 413
UnseededSample(population, k, st0) == sample(population, k, st0)

\* line 413-414: seed, then draw
SeededSample(population, k, st0) == sample(population, k, seed(SEED))

\* lines 410-416; st0 is the generator's state when the script reaches them
WebSample(data_list, st0) ==
  IF Len(data_list) > SAMPLE_CAP
  THEN SeededSample(data_list, SAMPLE_CAP, st0)
  ELSE data_list

\* json.dumps of a list of [lat, lon, value] lists, as a token sequence
dumps_row(row) ==
  <<"[", ToString(row[1]), ",", ToString(row[2]), ",", ToString(row[3]), "]">>
RECURSIVE dumps_rows(_)
dumps_rows(rows) ==
  IF rows = <<>> THEN <<>>
  ELSE IF Len(rows) = 1 THEN dumps_row(rows[1])
  ELSE dumps_row(rows[1]) \o <<",">> \o dumps_rows(Tail(rows))
json_dumps(rows) == <<"[">> \o dumps_rows(rows) \o <<"]">>

\* ---------------------------------------------------------------- state
VARIABLES
  disk,           \* the folder ./nasa_data/
  pc,             \* next statement of the main execution
  reran,          \* whether the script has been run before on this folder
  opened,         \* positions of the files handed to open_mfdataset
  ds,             \* line 388
  exc,            \* uncaught exception that ended the run
  steps,          \* calls the current run has made
  check_ret,      \* value check_variable returned to line 394
  plot,           \* figure shown by line 404
  data_list,      \* line 407
  data_list_web,  \* lines 414/416
  data_json,      \* line 431
  prev_list,      \* data_list of the previous run
  prev_web,       \* data_list_web of the previous run
  call            \* last call a client made to a function of the module

vars == <<disk, pc, reran, opened, ds, exc, steps, check_ret, plot,
          data_list, data_list_web, data_json, prev_list, prev_web, call>>
runvars == <<opened, ds, exc, steps, check_ret, plot, data_list,
             data_list_web, data_json>>

NoCall == [fn |-> "none"]
NoDs == [data_vars |-> {}]

Fresh ==
  /\ pc = "load"
  /\ opened = <<>>
  /\ ds = NoDs
  /\ exc = None
  /\ steps = {}
  /\ check_ret = None
  /\ plot = NoPlot
  /\ data_list = <<>>
  /\ data_list_web = <<>>
  /\ data_json = <<>>

Init ==
  /\ \E l \in Listings, hv \in BOOLEAN, r \in 1..MaxRows, c \in 1..MaxCols,
        shape \in { <<FALSE, FALSE, FALSE>>, <<TRUE, FALSE, FALSE>>,
                    <<TRUE, FALSE, TRUE>>, <<TRUE, TRUE, TRUE>> } :
       \E m \in MissingSets(Len(l), r, c) :
         disk = [listing |-> l, has_var |-> hv, has_dim |-> shape[1],
                 has_coord |-> shape[2], var_time |-> shape[3],
                 rows |-> r, cols |-> c, missing |-> m]
  /\ reran = FALSE
  /\ Fresh
  /\ prev_list = <<>>
  /\ prev_web = <<>>
  /\ call = NoCall

\* ---------------------------------------------------------------- main
\* lines 385-389 inside a try/except that carries on
LoadCarryOn ==
  /\ pc = "load"
  /\ LET r == open_local_datasets(disk, "Line", 0, DefaultPattern)
     IN /\ opened' = r.opened
        /\ steps' = steps \cup {"open"}
        /\ exc' = r.raised
        /\ pc' = "check"
        /\ ds' = IF r.raised # None THEN ds ELSE r.ds
  /\ UNCHANGED <<disk, reran, check_ret, plot, data_list,
                 data_list_web, data_json, prev_list, prev_web, call>>

\* lines 385-389
Load ==
  /\ pc = "load"
  /\ LET r == open_local_datasets(disk, "Line", 0, DefaultPattern)
     IN /\ opened' = r.opened
        /\ steps' = steps \cup {"open"}
        /\ IF r.raised # None
           THEN /\ exc' = r.raised
                /\ pc' = "raised"
                /\ ds' = ds
           ELSE /\ exc' = exc
                /\ pc' = "check"
                /\ ds' = r.ds
  /\ UNCHANGED <<disk, reran, check_ret, plot, data_list,
                 data_list_web, data_json, prev_list, prev_web, call>>

\* lines 392-401
Check ==
  /\ pc = "check"
  /\ LET r == check_variable(ds, VARIABLE_NAME)
     IN /\ check_ret' = IF r.ret THEN "True" ELSE "False"
        /\ pc' = IF r.ret THEN "plot" ELSE "done"
  /\ steps' = steps \cup {"check"}
  /\ UNCHANGED <<disk, reran, opened, ds, exc, plot, data_list,
                 data_list_web, data_json, prev_list, prev_web, call>>

\* line 404
PlotMap ==
  /\ pc = "plot"
  /\ plot' = plot_spatial_map(ds, VARIABLE_NAME, 0, FALSE)
  /\ steps' = steps \cup {"plot"}
  /\ pc' = "extract"
  /\ UNCHANGED <<disk, reran, opened, ds, exc, check_ret,
                 data_list, data_list_web, data_json, prev_list, prev_web,
                 call>>

\* line 407
Extract ==
  /\ pc = "extract"
  /\ data_list' = get_spatial_data_as_list(ds, VARIABLE_NAME, 0, TRUE).result
  /\ steps' = steps \cup {"extract"}
  /\ pc' = "sample"
  /\ UNCHANGED <<disk, reran, opened, ds, exc, check_ret, plot,
                 data_list_web, data_json, prev_list, prev_web, call>>

\* lines 409-421; the generator is in an arbitrary state when line 412
\* imports it
Sample ==
  /\ pc = "sample"
  /\ \E st0 \in 0..(RngMod - 1) : data_list_web' = WebSample(data_list, st0)
  /\ steps' = steps \cup {"sample"}
  /\ pc' = "export"
  /\ UNCHANGED <<disk, reran, opened, ds, exc, check_ret, plot,
                 data_list, data_json, prev_list, prev_web, call>>

\* lines 423-431
Export ==
  /\ pc = "export"
  /\ data_json' = json_dumps(data_list_web)
  /\ steps' = steps \cup {"export"}
  /\ pc' = "done"
  /\ UNCHANGED <<disk, reran, opened, ds, exc, check_ret, plot,
                 data_list, data_list_web, prev_list, prev_web, call>>

\* the script is started again on the same folder, in a new interpreter
Rerun ==
  /\ pc \in {"done", "raised"}
  /\ call = NoCall
  /\ reran' = TRUE
  /\ prev_list' = data_list
  /\ prev_web' = data_list_web
  /\ pc' = "load"
  /\ opened' = <<>>
  /\ ds' = NoDs
  /\ exc' = None
  /\ steps' = {}
  /\ check_ret' = None
  /\ plot' = NoPlot
  /\ data_list' = <<>>
  /\ data_list_web' = <<>>
  /\ data_json' = <<>>
  /\ UNCHANGED <<disk, call>>

\* ---------------------------------------------------------------- clients
\* After the script body has ended, the functions it defined are called with
\* arguments of the caller's choice; call records the call and its outcome
\* until the caller has taken the outcome (Return).
StartDates == {0, 31}
Loaded == pc = "done" /\ call = NoCall
Ended == pc \in {"done", "raised"} /\ call = NoCall

CallOpen ==
  /\ Ended
  /\ \E pattern \in Patterns, start_date \in StartDates :
       call' = [fn |-> "open_local_datasets", file_pattern |-> pattern,
                time_dim |-> "Line", start_date |-> start_date,
                out |-> open_local_datasets(disk, "Line", start_date, pattern)]
  /\ UNCHANGED <<disk, pc, reran, runvars, prev_list, prev_web>>

CallCheck ==
  /\ Loaded
  /\ \E name \in Names :
       call' = [fn |-> "check_variable", variable_name |-> name,
                out |-> check_variable(ds, name)]
  /\ UNCHANGED <<disk, pc, reran, runvars, prev_list, prev_web>>

CallPlotGlobalMean ==
  /\ Loaded
  /\ \E name \in Names :
       call' = [fn |-> "plot_global_mean", variable_name |-> name,
                out |-> plot_global_mean(ds, name, "Line")]
  /\ UNCHANGED <<disk, pc, reran, runvars, prev_list, prev_web>>

CallPlotSpatialMap ==
  /\ Loaded
  /\ \E name \in Names, time_index \in 0..MaxTimeIndex,
        interactive \in BOOLEAN :
       call' = [fn |-> "plot_spatial_map", variable_name |-> name,
                time_index |-> time_index, interactive |-> interactive,
                out |-> plot_spatial_map(ds, name, time_index, interactive)]
  /\ UNCHANGED <<disk, pc, reran, runvars, prev_list, prev_web>>

CallExtract ==
  /\ Loaded
  /\ \E name \in Names, time_index \in 0..MaxTimeIndex, skip_nan \in BOOLEAN :
       call' = [fn |-> "get_spatial_data_as_list", variable_name |-> name,
                time_index |-> time_index, skip_nan |-> skip_nan,
                out |-> get_spatial_data_as_list(ds, name, time_index,
                                                 skip_nan)]
  /\ UNCHANGED <<disk, pc, reran, runvars, prev_list, prev_web>>

Return ==
  /\ call # NoCall
  /\ call' = NoCall
  /\ UNCHANGED <<disk, pc, reran, runvars, prev_list, prev_web>>

Next ==
  \/ Load
  \/ Check
  \/ PlotMap
  \/ Extract
  \/ Sample
  \/ Export
  \/ Rerun
  \/ CallOpen
  \/ CallCheck
  \/ CallPlotGlobalMean
  \/ CallPlotSpatialMap
  \/ CallExtract
  \/ Return

Spec == Init /\ [][Next]_vars

\* ================================================================ properties
IsExtract == call.fn = "get_spatial_data_as_list"
Present(name) == name \in ds.data_vars
\* the time step a call with time_index is about
SliceIndex(time_index) ==
  IF ds.var_time /\ ds.n_time > 1 THEN time_index ELSE 0
\* cells of time step t of the loaded files that hold a measurement
ValidCells(t) ==
  { c \in (0..(ds.rows - 1)) \X (0..(ds.cols - 1)) :
      <<ds.pos[t + 1], c[1], c[2]>> \notin disk.missing }
ExtractReturned == IsExtract /\ Present(call.variable_name)
                             /\ call.out.raised = None

\* C1: with skip_nan=True no returned triplet carries a missing value, and
\* the number of triplets is the number of non-missing cells of the slice
\* (both for a client's call and for data_list of the main execution).
C1_NoMissingTriplets ==
  /\ (ExtractReturned /\ call.skip_nan) =>
       /\ \A p \in DOMAIN call.out.result : call.out.result[p][3] # NaN
       /\ Len(call.out.result) =
            Cardinality(ValidCells(SliceIndex(call.time_index)))
  /\ ("extract" \in steps) =>
       /\ \A p \in DOMAIN data_list : data_list[p][3] # NaN
       /\ Len(data_list) = Cardinality(ValidCells(0))
C1_Witness ==
  /\ ExtractReturned /\ call.skip_nan
  /\ Len(call.out.result) > 0
  /\ Cardinality(ValidCells(SliceIndex(call.time_index))) < ds.rows * ds.cols

\* C2: the result lists the cells in row-major order: every element is
\* [lats[i], lons[j], values[i, j]] of a cell, elements appear in strictly
\* increasing (i, j) order, and the length is at most rows x cols, exactly
\* rows x cols when skip_nan=False.
RowOf(triplet) == (triplet[1] + 10) \div 10
ColOf(triplet) == (triplet[2] - 100) \div 10
C2_RowMajor ==
  ExtractReturned =>
    LET res == call.out.result
        t == SliceIndex(call.time_index)
    IN /\ \A p \in DOMAIN res :
            /\ RowOf(res[p]) \in 0..(ds.rows - 1)
            /\ ColOf(res[p]) \in 0..(ds.cols - 1)
            /\ res[p] = << ds.coords["lat"][RowOf(res[p]) + 1],
                           ds.coords["lon"][ColOf(res[p]) + 1],
                           VarValue(ds, call.variable_name, t,
                                    RowOf(res[p]), ColOf(res[p])) >>
       /\ \A p, q \in DOMAIN res :
            p < q => \/ RowOf(res[p]) < RowOf(res[q])
                     \/ /\ RowOf(res[p]) = RowOf(res[q])
                        /\ ColOf(res[p]) < ColOf(res[q])
       /\ Len(res) <= ds.rows * ds.cols
       /\ ~call.skip_nan => Len(res) = ds.rows * ds.cols
C2_Witness ==
  /\ ExtractReturned /\ ~call.skip_nan
  /\ ds.rows = 2 /\ ds.cols = 2
  /\ Len(call.out.result) = 4

\* C3: a variable that is not in the dataset stops every step quietly:
\* extraction returns [], the plots show nothing, check_variable returns
\* False and lists the variables, and the main execution runs nothing after
\* a False check.
C3_MissingVariable ==
  /\ (call.fn \in {"get_spatial_data_as_list", "plot_global_mean",
                   "plot_spatial_map", "check_variable"}
        /\ ~Present(call.variable_name)) =>
       /\ IsExtract => call.out.raised = None /\ call.out.result = <<>>
       /\ call.fn = "plot_global_mean" => ~call.out.shown
       /\ call.fn = "plot_spatial_map" =>
            ~call.out.shown /\ call.out.raised = None
       /\ call.fn = "check_variable" =>
            /\ ~call.out.ret
            /\ call.out.printed = <<"not found", ds.data_vars>>
  /\ check_ret = "False" =>
       /\ pc = "done" /\ exc = None
       /\ steps = {"open", "check"}
       /\ ~plot.shown /\ data_list = <<>> /\ data_list_web = <<>>
       /\ data_json = <<>>
C3_Witness ==
  /\ check_ret = "False"
  /\ IsExtract /\ call.variable_name = VARIABLE_NAME /\ call.time_index = 1
  /\ ds.var_time /\ ds.n_time = 1

\* C4: the payload respects the cap: a list longer than the cap yields
\* exactly cap elements taken from distinct positions of the list, a list
\* within the cap is passed on unchanged, and data_list still is what the
\* extraction returned.
Sampled == "sample" \in steps
Injective(f) == \A a, b \in DOMAIN f : a # b => f[a] # f[b]
C4_SamplingCap ==
  Sampled =>
    /\ IF Len(data_list) > SAMPLE_CAP
       THEN /\ Len(data_list_web) = SAMPLE_CAP
            /\ \E f \in [1..SAMPLE_CAP -> 1..Len(data_list)] :
                 /\ Injective(f)
                 /\ \A p \in 1..SAMPLE_CAP : data_list_web[p] = data_list[f[p]]
       ELSE data_list_web = data_list
    /\ data_list = get_spatial_data_as_list(ds, VARIABLE_NAME, 0, TRUE).result
C4_Witness ==
  /\ Sampled
  /\ Len(data_list) = SAMPLE_CAP + 1
  /\ Len(data_list_web) = SAMPLE_CAP

\* C5: two runs of the script on the same extracted list produce the same
\* payload, element by element.
C5_Deterministic ==
  (reran /\ Sampled /\ data_list = prev_list) => data_list_web = prev_web
C5_Witness ==
  /\ reran /\ Sampled
  /\ data_list = prev_list
  /\ Len(data_list) > SAMPLE_CAP
  /\ data_list_web # SubSeq(data_list, 1, SAMPLE_CAP)

\* no entry of the folder has the extension of the main execution's pattern
NoInput == \A k \in DOMAIN disk.listing :
             ~EndsWith(disk.listing[k], StripStars(DefaultPattern))
\* C6 as stated: with zero input files the run completes without any
\* exception and with empty output.
C6_Original ==
  (NoInput /\ "open" \in steps) =>
    /\ exc = None
    /\ data_list = <<>> /\ data_list_web = <<>>
\* C6 as amended: with zero input files the run ends in an uncaught
\* FileNotFoundError, and no triplet, payload or export is produced.
C6_EmptyInputRaises ==
  (NoInput /\ "open" \in steps) =>
    /\ pc = "raised"
    /\ exc = "FileNotFoundError"
    /\ data_list = <<>> /\ data_list_web = <<>> /\ data_json = <<>>
C6_Witness ==
  /\ NoInput /\ "open" \in steps
  /\ Len(disk.listing) > 0

\* C7: when nothing matches, open_local_datasets raises FileNotFoundError
\* before any dataset is opened, and the main execution runs no further
\* step after it.
C7_NotFound ==
  /\ (call.fn = "open_local_datasets" /\ call.out.files = <<>>) =>
       call.out.raised = "FileNotFoundError" /\ call.out.opened = <<>>
  /\ (call.fn = "open_local_datasets" /\ call.out.files # <<>>) =>
       call.out.raised = None
  /\ (NoInput /\ "open" \in steps) =>
       /\ opened = <<>>
       /\ steps = {"open"}
       /\ check_ret = None /\ ~plot.shown
  /\ exc # None => NoInput
C7_Witness ==
  /\ pc = "raised" /\ exc = "FileNotFoundError"
  /\ call.fn = "open_local_datasets" /\ call.out.raised = "FileNotFoundError"
  /\ Len(disk.listing) > 0

\* the claim's reading of a pattern: '*' matches any run of characters
RECURSIVE WildMatch(_, _)
WildMatch(p, f) ==
  IF p = <<>> THEN f = <<>>
  ELSE IF Head(p) = "*"
       THEN WildMatch(Tail(p), f) \/ (f # <<>> /\ WildMatch(p, Tail(f)))
       ELSE f # <<>> /\ Head(f) = Head(p) /\ WildMatch(Tail(p), Tail(f))
InSeq(x, q) == \E k \in DOMAIN q : q[k] = x
\* C8: open_local_datasets selects a file of the folder if and only if its
\* name matches file_pattern read as a wildcard pattern.
C8_OpensExactlyMatches ==
  call.fn = "open_local_datasets" =>
    \A k \in DOMAIN disk.listing :
      InSeq(k, call.out.files) <=> WildMatch(call.file_pattern, disk.listing[k])

\* C9: the time coordinate is synthesized only when absent: a dataset with
\* the dimension and no coordinate on it gets consecutive days from
\* start_date, one per step; otherwise the dataset is returned as opened.
C9_TimeCoordinate ==
  (call.fn = "open_local_datasets" /\ call.out.raised = None) =>
    LET base == open_mfdataset(disk, call.out.files, call.time_dim)
        res == call.out.ds
    IN IF call.time_dim \in base.dims /\ call.time_dim \notin DOMAIN base.coords
       THEN /\ DOMAIN res.coords = DOMAIN base.coords \cup {call.time_dim}
            /\ Len(res.coords[call.time_dim]) = Len(call.out.files)
            /\ \A t \in 1..Len(call.out.files) :
                 res.coords[call.time_dim][t] = call.start_date + (t - 1)
            /\ \A c \in DOMAIN base.coords : res.coords[c] = base.coords[c]
            /\ [res EXCEPT !.coords = base.coords] = base
       ELSE res = base
C9_Witness ==
  /\ call.fn = "open_local_datasets" /\ call.out.raised = None
  /\ disk.has_dim /\ ~disk.has_coord
  /\ call.start_date = 31
  /\ Len(call.out.files) = 2

\* C10: the triplets come from one time step: step time_index when 'Line'
\* has more than one step, the only step when it has one, the variable
\* itself when it has no 'Line'; plot_spatial_map draws the same grid for
\* the same arguments.
C10_OneSlice ==
  (IsExtract /\ Present(call.variable_name)) =>
    LET t == IF ~ds.var_time THEN 0
             ELSE IF ds.n_time > 1 THEN call.time_index
             ELSE 0
        res == call.out.result
        drawn == plot_spatial_map(ds, call.variable_name, call.time_index,
                                  TRUE)
    IN /\ call.out.raised = None =>
            \A p \in DOMAIN res :
              res[p][3] = VarValue(ds, call.variable_name, t,
                                   RowOf(res[p]), ColOf(res[p]))
       /\ drawn.raised = call.out.raised
       /\ drawn.shown =>
            \A p \in DOMAIN res :
              res[p][3] = drawn.grid.at[RowOf(res[p])][ColOf(res[p])]
C10_Witness ==
  /\ ExtractReturned
  /\ ds.var_time /\ ds.n_time = 2 /\ call.time_index = 1
  /\ Len(call.out.result) > 1

====
